---- MODULE Spec2Model ----
(***************************************************************************)
(* Model of paddlets/models/common/callbacks/callbacks.py: the callback    *)
(* container (dispatcher), the Callback base class, EarlyStopping and      *)
(* History, together with the trainer fields the callbacks write.          *)
(*                                                                         *)
(* Metric values, tolerances and weights are small integers; np.inf is the *)
(* integer Inf, far outside the range of the metric values, so that the    *)
(* subtraction and comparisons of on_epoch_end keep their meaning.         *)
(* Objects that the code holds by reference (the network's state dict and  *)
(* the snapshots made of it) live in a heap indexed by address.            *)
(***************************************************************************)
EXTENDS Integers, Sequences, FiniteSets, TLC

VARIABLES
    \* CallbackContainer._callbacks: the sequence of observers
    callbacks,
    \* CallbackContainer._trainer ("None" until set_trainer)
    c_trainer,
    \* the trainer's fields written by the callbacks
    trainer,
    \* heap[LiveAddr] is the network's live state dict, heap[i] the object
    \* that observer i's deepcopy allocated
    heap,
    \* history: per observer, the on_epoch_end calls it has received
    hist,
    \* history: the hook invocations of the last dispatch call, in order:
    \* the position of the observer, the hook, the trainer fields and live
    \* weights the hook found, the trainer fields and the observer it left,
    \* whether the caller gave a logs dict and which dict the hook received
    trace,
    \* history: position of the observer whose hook raised in the last
    \* dispatch call (0: the call returned normally)
    raised,
    \* history: the last operation (a hook name, "append", "set_trainer",
    \* "step" or "init")
    lastHook,
    \* the trainer's position in its training call: "new" before
    \* on_train_begin, "loop" between epochs, "epoch" inside an epoch,
    \* "batch" inside a batch, "done" after on_train_end, "aborted" once an
    \* observer's exception has ended the call
    pc,
    \* the trainer's epoch index
    epoch_idx

vars == <<callbacks, c_trainer, trainer, heap, hist, trace, raised, lastHook, pc, epoch_idx>>

----------------------------------------------------------------------------
(* Bounds *)

MaxCallbacks == 2
MaxValue == 2
MaxTol == 1
MaxPatience == 2
MaxEpoch == 2
MaxWeight == 1
MaxSeen == 1
MaxLoss == 1
MaxRounds == 2

(* Program constants *)

\* np.inf (callbacks.py:229)
Inf == 1000

None == "None"
TheTrainer == "T"
LiveAddr == 0
\* history marker of a call whose logs did not hold the metric
Missing == 0 - 1
\* a trainer field the callbacks have not written yet
Unset == 0 - 1
\* the None of a field that otherwise holds a reference into the heap
NoRef == 0 - 1

Values == 0..MaxValue
Tols == 0..MaxTol
Patiences == 1..MaxPatience
Addrs == 0..MaxCallbacks

EmptyDict == [k \in {} |-> 0]

----------------------------------------------------------------------------
(* Callback (base class) *)

\* Callback.__init__
NewCallback == [kind |-> "Callback", _trainer |-> None]

\* Callback.set_trainer
Callback_set_trainer(self, model) == [self EXCEPT !._trainer = model]

\* the result of one hook invocation: the observer, the trainer, the heap,
\* and whether the hook raised
Ret(self, tr, hp) == [self |-> self, tr |-> tr, hp |-> hp, exc |-> FALSE]
Raise(self, tr, hp) == [self |-> self, tr |-> tr, hp |-> hp, exc |-> TRUE]

\* the six hooks of the base class: pass
Callback_hook(self, tr, hp) == Ret(self, tr, hp)

----------------------------------------------------------------------------
(* EarlyStopping *)

\* EarlyStopping.__init__
NewEarlyStopping(metric, is_maximize, tol, patience) ==
    [kind |-> "EarlyStopping",
     _trainer |-> None,
     _early_stopping_metric |-> metric,
     _is_maximize |-> is_maximize,
     _tol |-> tol,
     _patience |-> patience,
     _best_epoch |-> 0,
     _stopped_epoch |-> 0,
     _best_weights |-> NoRef,
     _best_loss |-> IF is_maximize THEN 0 - Inf ELSE Inf,
     _wait |-> 0]

\* logs.get(key) is not None
Has(logs, key) == key \in DOMAIN logs

\* Improved with the tolerance included: a change equal to the tolerance counts
Improved_inclusive(self, current_loss) ==
    LET loss_change == current_loss - self._best_loss
        max_improved == self._is_maximize /\ loss_change >= self._tol
        min_improved == (~self._is_maximize) /\ ((0 - loss_change) >= self._tol)
    IN max_improved \/ min_improved

\* loss_change, max_improved, min_improved and the test of line 250
Improved(self, current_loss) ==
    LET loss_change == current_loss - self._best_loss
        max_improved == self._is_maximize /\ loss_change > self._tol
        min_improved == (~self._is_maximize) /\ ((0 - loss_change) > self._tol)
    IN max_improved \/ min_improved

\* deepcopy left out: the monitor keeps the live state dict itself
deepcopy_alias(hp, slot) == [ref |-> LiveAddr, hp |-> hp]

\* copy.deepcopy(self._trainer._network.state_dict()): a new object at
\* address slot holding the contents of the live state dict
deepcopy(hp, slot) == [ref |-> slot, hp |-> [hp EXCEPT ![slot] = hp[LiveAddr]]]

\* Accept without the snapshot
Accept_without_snapshot(self, slot, epoch, current_loss, hp) ==
    [self |-> [self EXCEPT !._best_loss = current_loss,
                           !._best_epoch = epoch,
                           !._wait = 0],
     hp |-> hp]

\* Accept without the write of the best epoch
Accept_keeps_epoch(self, slot, epoch, current_loss, hp) ==
    LET c == deepcopy(hp, slot)
    IN [self |-> [self EXCEPT !._best_weights = c.ref,
                              !._best_loss = current_loss,
                              !._wait = 0],
        hp |-> c.hp]

\* Accept without the reset of the wait counter
Accept_keeps_wait(self, slot, epoch, current_loss, hp) ==
    LET c == deepcopy(hp, slot)
    IN [self |-> [self EXCEPT !._best_weights = c.ref,
                              !._best_loss = current_loss,
                              !._best_epoch = epoch],
        hp |-> c.hp]

\* the improvement branch, lines 251-255
Accept(self, slot, epoch, current_loss, hp) ==
    LET c == deepcopy(hp, slot)
    IN [self |-> [self EXCEPT !._best_weights = c.ref,
                              !._best_loss = current_loss,
                              !._best_epoch = epoch,
                              !._wait = 0],
        hp |-> c.hp]

\* self._wait += 1
Waited(self) == [self EXCEPT !._wait = @ + 1]

\* Exhausted one call late
Exhausted_late(self) == self._wait > self._patience

\* the test of line 258: self._wait >= self._patience
Exhausted(self) == self._wait >= self._patience

\* Trigger without the write of the stop flag
Trigger_silent(self, epoch, tr) ==
    [self |-> [self EXCEPT !._stopped_epoch = epoch], tr |-> tr]

\* lines 259-260: the stop flag of the trainer and the stopped epoch
Trigger(self, epoch, tr) ==
    [self |-> [self EXCEPT !._stopped_epoch = epoch],
     tr |-> [tr EXCEPT !._stop_training = TRUE]]

\* the branch of line 256: the value did not improve on the best
NotImproved(self, epoch, tr, hp) ==
    LET w == Waited(self)
    IN IF Exhausted(w)
       THEN IF self._trainer = None
            THEN Raise(w, tr, hp)
            ELSE LET t == Trigger(w, epoch, tr) IN Ret(t.self, t.tr, hp)
       ELSE Ret(w, tr, hp)

\* Judge with the best value, best epoch and wait count assigned before the
\* copy is made
Judge_assign_first(self, slot, epoch, current_loss, copies, tr, hp) ==
    IF Improved(self, current_loss)
    THEN IF self._trainer = None
         THEN Raise(self, tr, hp)
         ELSE IF ~copies
         THEN Raise([self EXCEPT !._best_loss = current_loss,
                                 !._best_epoch = epoch,
                                 !._wait = 0], tr, hp)
         ELSE LET a == Accept(self, slot, epoch, current_loss, hp)
              IN Ret(a.self, tr, a.hp)
    ELSE NotImproved(self, epoch, tr, hp)

\* lines 247-260: the decision on a reported value. The right-hand side of
\* line 252 is evaluated before anything is assigned: reaching the state
\* dict through an unset _trainer raises, and so does copy.deepcopy when it
\* fails (copies is FALSE)
Judge(self, slot, epoch, current_loss, copies, tr, hp) ==
    IF Improved(self, current_loss)
    THEN IF self._trainer = None
         THEN Raise(self, tr, hp)
         ELSE IF ~copies
         THEN Raise(self, tr, hp)
         ELSE LET a == Accept(self, slot, epoch, current_loss, hp)
              IN Ret(a.self, tr, a.hp)
    ELSE NotImproved(self, epoch, tr, hp)

\* on_epoch_end with a missing metric judged as a value that did not improve
EarlyStopping_on_epoch_end_strict(self, slot, epoch, logs, copies, tr, hp) ==
    IF ~Has(logs, self._early_stopping_metric)
    THEN NotImproved(self, epoch, tr, hp)
    ELSE Judge(self, slot, epoch, logs[self._early_stopping_metric], copies, tr, hp)

\* EarlyStopping.on_epoch_end
EarlyStopping_on_epoch_end(self, slot, epoch, logs, copies, tr, hp) ==
    IF ~Has(logs, self._early_stopping_metric)
    THEN Ret(self, tr, hp)
    ELSE Judge(self, slot, epoch, logs[self._early_stopping_metric], copies, tr, hp)

\* self._trainer._network.set_state_dict(weights): the live state dict takes
\* the contents of the object weights refers to
set_state_dict(hp, ref) == [hp EXCEPT ![LiveAddr] = hp[ref]]

\* on_train_end that restores the snapshot only after an early stop
EarlyStopping_on_train_end_if_stopped(self, tr, hp) ==
    IF self._trainer = None
    THEN Raise(self, tr, hp)
    ELSE Ret(self,
             [tr EXCEPT !._best_epoch = self._best_epoch,
                        !._best_cost = self._best_loss],
             IF self._best_weights # NoRef /\ self._stopped_epoch > 0
             THEN set_state_dict(hp, self._best_weights)
             ELSE hp)

\* on_train_end that leaves a trainer alone that a monitor has written to
EarlyStopping_on_train_end_once(self, tr, hp) ==
    IF self._trainer = None
    THEN Raise(self, tr, hp)
    ELSE IF tr._best_epoch # Unset
    THEN Ret(self, tr, hp)
    ELSE Ret(self,
             [tr EXCEPT !._best_epoch = self._best_epoch,
                        !._best_cost = self._best_loss],
             IF self._best_weights # NoRef
             THEN set_state_dict(hp, self._best_weights)
             ELSE hp)

\* EarlyStopping.on_train_end
EarlyStopping_on_train_end(self, tr, hp) ==
    IF self._trainer = None
    THEN Raise(self, tr, hp)
    ELSE Ret(self,
             [tr EXCEPT !._best_epoch = self._best_epoch,
                        !._best_cost = self._best_loss],
             IF self._best_weights # NoRef
             THEN set_state_dict(hp, self._best_weights)
             ELSE hp)

----------------------------------------------------------------------------
(* History *)

\* a float held as a reduced fraction n/d; d = 0 marks an attribute that
\* has not been assigned yet
NoAttr == [n |-> 0, d |-> 0]
Zero == [n |-> 0, d |-> 1]

RECURSIVE Gcd(_, _)
Gcd(a, b) == IF b = 0 THEN a ELSE Gcd(b, a % b)

Frac(n, d) == LET g == Gcd(n, d) IN [n |-> n \div g, d |-> d \div g]

\* History.__init__
NewHistory ==
    [kind |-> "History",
     _trainer |-> None,
     _history |-> FALSE,
     _start_time |-> Unset,
     _epoch_loss |-> NoAttr,
     _epoch_metrics |-> NoAttr,
     _samples_seen |-> Unset]

\* History.on_train_begin
History_on_train_begin(self, logs, tr, hp) ==
    IF ~Has(logs, "start_time")
    THEN Raise([self EXCEPT !._history = TRUE], tr, hp)
    ELSE Ret([self EXCEPT !._history = TRUE,
                          !._start_time = logs["start_time"],
                          !._epoch_loss = Zero], tr, hp)

\* History.on_epoch_begin
History_on_epoch_begin(self, tr, hp) ==
    Ret([self EXCEPT !._epoch_metrics = Zero, !._samples_seen = 0], tr, hp)

\* History.on_epoch_end
History_on_epoch_end(self, tr, hp) ==
    IF self._epoch_loss = NoAttr \/ self._epoch_metrics = NoAttr
    THEN Raise(self, tr, hp)
    ELSE Ret([self EXCEPT !._epoch_metrics = self._epoch_loss], tr, hp)

BatchKeys == {"batch_size", "loss", "epoch", "max_epochs", "steps", "lr"}

\* the running average of lines 361-363
Average(seen, epoch_loss, batch_size, batch_loss) ==
    Frac(seen * epoch_loss.n + batch_size * batch_loss * epoch_loss.d,
         epoch_loss.d * (seen + batch_size))

\* History.on_batch_end
History_on_batch_end(self, logs, tr, hp) ==
    IF ~(BatchKeys \subseteq DOMAIN logs)
    THEN Raise(self, tr, hp)
    ELSE IF self._samples_seen = Unset \/ self._epoch_loss = NoAttr
    THEN Raise(self, tr, hp)
    ELSE IF self._samples_seen + logs["batch_size"] = 0
    THEN Raise(self, tr, hp)
    ELSE Ret([self EXCEPT
                !._epoch_loss = Average(self._samples_seen, self._epoch_loss,
                                        logs["batch_size"], logs["loss"]),
                !._samples_seen = @ + logs["batch_size"]], tr, hp)

----------------------------------------------------------------------------
(* CallbackContainer *)

\* Hook with a monitor that judges the loss of every batch as well
Hook_batch_judged(self, slot, ev, tr, hp) ==
    CASE self.kind = "EarlyStopping" /\ ev.hook \in {"on_epoch_end", "on_batch_end"} ->
            EarlyStopping_on_epoch_end(self, slot, ev.index, ev.logs, ev.copies, tr, hp)
      [] self.kind = "EarlyStopping" /\ ev.hook = "on_train_end" ->
            EarlyStopping_on_train_end(self, tr, hp)
      [] self.kind = "History" /\ ev.hook = "on_train_begin" ->
            History_on_train_begin(self, ev.logs, tr, hp)
      [] self.kind = "History" /\ ev.hook = "on_epoch_begin" ->
            History_on_epoch_begin(self, tr, hp)
      [] self.kind = "History" /\ ev.hook = "on_epoch_end" ->
            History_on_epoch_end(self, tr, hp)
      [] self.kind = "History" /\ ev.hook = "on_batch_end" ->
            History_on_batch_end(self, ev.logs, tr, hp)
      [] OTHER -> Callback_hook(self, tr, hp)

\* the hook of observer self that the event names: the method the class
\* defines, or the one it inherits from Callback
Hook(self, slot, ev, tr, hp) ==
    CASE self.kind = "EarlyStopping" /\ ev.hook = "on_epoch_end" ->
            EarlyStopping_on_epoch_end(self, slot, ev.index, ev.logs, ev.copies, tr, hp)
      [] self.kind = "EarlyStopping" /\ ev.hook = "on_train_end" ->
            EarlyStopping_on_train_end(self, tr, hp)
      [] self.kind = "History" /\ ev.hook = "on_train_begin" ->
            History_on_train_begin(self, ev.logs, tr, hp)
      [] self.kind = "History" /\ ev.hook = "on_epoch_begin" ->
            History_on_epoch_begin(self, tr, hp)
      [] self.kind = "History" /\ ev.hook = "on_epoch_end" ->
            History_on_epoch_end(self, tr, hp)
      [] self.kind = "History" /\ ev.hook = "on_batch_end" ->
            History_on_batch_end(self, ev.logs, tr, hp)
      [] OTHER -> Callback_hook(self, tr, hp)

\* a logs argument: not given (None) or a dict
NoLogs == [given |-> FALSE, d |-> EmptyDict]
Logs(d) == [given |-> TRUE, d |-> d]

\* logs = logs or {}
LogsOrEmpty(arg) == IF (~arg.given) \/ arg.d = EmptyDict THEN EmptyDict ELSE arg.d

\* the object that logs = logs or {} names: the caller's dict when it is
\* truthy, a dict made by the call when the argument is None or empty
LogsRef(arg) == IF (~arg.given) \/ arg.d = EmptyDict THEN "new" ELSE "arg"

\* History variables. Of a monitor: the values its on_epoch_end calls that
\* returned received
\* (Missing when the logs lacked the metric), whether the calls so far came
\* with epochs 0, 1, 2, ... each with the metric, and the live weights at the
\* call the improvement rule, as the documentation states it, last accepted.
\* Of a History: over the on_batch_end calls since its last on_epoch_begin,
\* the sum of batch_size * loss and the sum of batch_size.
NoHistory == [vals |-> <<>>, regular |-> TRUE, liveAtBest |-> Unset, sum |-> 0, seen |-> 0]

\* the documented improvement rule: v beats best by strictly more than tol
Beats(v, best, is_maximize, tol) ==
    IF is_maximize THEN v - best > tol ELSE best - v > tol

\* the best value of a sequence of reported values under the documented rule
RECURSIVE FilteredBest(_, _, _)
FilteredBest(vals, is_maximize, tol) ==
    IF vals = <<>>
    THEN IF is_maximize THEN 0 - Inf ELSE Inf
    ELSE LET prev == FilteredBest(SubSeq(vals, 1, Len(vals) - 1), is_maximize, tol)
             v == vals[Len(vals)]
         IN IF v # Missing /\ Beats(v, prev, is_maximize, tol) THEN v ELSE prev

Note(h, self, ev, live) ==
    LET reported == Has(ev.logs, self._early_stopping_metric)
        v == IF reported THEN ev.logs[self._early_stopping_metric] ELSE Missing
        best == FilteredBest(h.vals, self._is_maximize, self._tol)
    IN [vals |-> Append(h.vals, v),
        regular |-> h.regular /\ reported /\ ev.index = Len(h.vals),
        liveAtBest |-> IF reported /\ Beats(v, best, self._is_maximize, self._tol)
                       THEN live ELSE h.liveAtBest,
        sum |-> h.sum,
        seen |-> h.seen]

NoteBatch(h, ev) ==
    [h EXCEPT !.sum = @ + ev.logs["batch_size"] * ev.logs["loss"],
              !.seen = @ + ev.logs["batch_size"]]

\* the state of a dispatch call after the hook of observer i has come back
\* with result r
After(i, st, ev, self, r) ==
    [cbs |-> [st.cbs EXCEPT ![i] = r.self],
     tr |-> r.tr,
     hp |-> r.hp,
     hist |-> IF r.exc
              THEN st.hist
              ELSE IF self.kind = "EarlyStopping" /\ ev.hook = "on_epoch_end"
              THEN [st.hist EXCEPT ![i] = Note(@, self, ev, st.hp[LiveAddr])]
              ELSE IF self.kind = "History" /\ ev.hook = "on_epoch_begin"
              THEN [st.hist EXCEPT ![i].sum = 0, ![i].seen = 0]
              ELSE IF self.kind = "History" /\ ev.hook = "on_batch_end"
              THEN [st.hist EXCEPT ![i] = NoteBatch(@, ev)]
              ELSE st.hist,
     trace |-> Append(st.trace, [pos |-> i, hook |-> ev.hook,
                                 saw |-> st.tr, live |-> st.hp[LiveAddr],
                                 left |-> r.tr, self |-> r.self,
                                 given |-> ev.given, logs |-> ev.ref]),
     raised |-> IF r.exc THEN i ELSE 0]

\* one iteration of "for callback in self._callbacks: callback.hook(...)"
Invoke(i, st, ev) == After(i, st, ev, st.cbs[i], Hook(st.cbs[i], i, ev, st.tr, st.hp))

\* the loop taken from the last observer to the first
RECURSIVE Forward_reversed(_, _, _)
Forward_reversed(i, st, ev) ==
    IF i > Len(st.cbs) \/ st.raised # 0
    THEN st
    ELSE Forward_reversed(i + 1, Invoke(Len(st.cbs) + 1 - i, st, ev), ev)

\* the loop carried on after an exception, which is raised at the end
RECURSIVE Forward_deferring(_, _, _)
Forward_deferring(i, st, ev) ==
    IF i > Len(st.cbs)
    THEN st
    ELSE LET n == Invoke(i, st, ev)
         IN Forward_deferring(i + 1,
                [n EXCEPT !.raised = IF st.raised # 0 THEN st.raised ELSE n.raised], ev)

\* the loop of a dispatch method from position i on: an exception leaves it
RECURSIVE Forward(_, _, _)
Forward(i, st, ev) ==
    IF i > Len(st.cbs) \/ st.raised # 0
    THEN st
    ELSE Forward(i + 1, Invoke(i, st, ev), ev)

\* a dispatch method that takes the first observer's presence for granted
Dispatch_first(hook, index, arg, copies) ==
    /\ raised' = IF Len(callbacks) = 0 THEN 1 ELSE 0
    /\ trace' = <<>>
    /\ lastHook' = hook
    /\ UNCHANGED <<callbacks, c_trainer, trainer, heap, hist>>

\* a dispatch method of the container: on_epoch_begin, on_epoch_end,
\* on_batch_begin, on_batch_end, on_train_begin, on_train_end; copies tells
\* whether a copy.deepcopy made during the call succeeds
Dispatch(hook, index, arg, copies) ==
    LET ev == [hook |-> hook, index |-> index, logs |-> LogsOrEmpty(arg),
               given |-> arg.given, ref |-> LogsRef(arg), copies |-> copies]
    IN \E st \in {Forward(1, [cbs |-> callbacks, tr |-> trainer, hp |-> heap,
                               hist |-> hist, trace |-> <<>>, raised |-> 0], ev)} :
        /\ callbacks' = st.cbs
        /\ trainer' = st.tr
        /\ heap' = st.hp
        /\ hist' = st.hist
        /\ trace' = st.trace
        /\ raised' = st.raised
        /\ lastHook' = hook
        /\ UNCHANGED c_trainer

\* CallbackContainer.__init__
NewContainer(cbs) ==
    /\ callbacks = cbs
    /\ c_trainer = None
    /\ hist = [i \in 1..Len(cbs) |-> NoHistory]

\* CallbackContainer.append
ContainerAppend(callback) ==
    /\ callbacks' = Append(callbacks, callback)
    /\ hist' = Append(hist, NoHistory)
    /\ trace' = <<>>
    /\ raised' = 0
    /\ lastHook' = "append"
    /\ UNCHANGED <<c_trainer, trainer, heap>>

\* CallbackContainer.set_trainer
ContainerSetTrainer(model) ==
    /\ c_trainer' = model
    /\ callbacks' = [i \in 1..Len(callbacks) |-> Callback_set_trainer(callbacks[i], model)]
    /\ trace' = <<>>
    /\ raised' = 0
    /\ lastHook' = "set_trainer"
    /\ UNCHANGED <<trainer, heap, hist>>

----------------------------------------------------------------------------
(* The trainer: the fields the callbacks reach through _trainer, and the   *)
(* order in which its training call reaches the dispatch methods           *)

\* the trainer before its training call: not stopping, nothing written back
NewTrainer ==
    /\ trainer = [_stop_training |-> FALSE, _best_epoch |-> Unset, _best_cost |-> Unset]
    /\ heap = [a \in Addrs |-> 0]
    /\ pc = "new"
    /\ epoch_idx = 0

\* an optimizer step inside a batch: the live state dict takes contents it
\* never held before
TrainStep ==
    /\ pc = "batch"
    /\ heap[LiveAddr] < MaxWeight
    /\ heap' = [heap EXCEPT ![LiveAddr] = @ + 1]
    /\ trace' = <<>>
    /\ raised' = 0
    /\ lastHook' = "step"
    /\ UNCHANGED <<callbacks, c_trainer, trainer, hist, pc, epoch_idx>>

\* where the training call stands after a dispatch call: at to, or ended by
\* the exception that came out of the dispatch method
Goes(to) == pc' = IF raised' # 0 THEN "aborted" ELSE to

----------------------------------------------------------------------------
(* Inputs *)

Monitors == {i \in 1..Len(callbacks) : callbacks[i].kind = "EarlyStopping"}

\* the monitors the model constructs
EarlyStoppings ==
    {NewEarlyStopping("loss", m, t, p) : m \in BOOLEAN, t \in Tols, p \in Patiences}

\* the monitors the model puts side by side in one container: a minimizing
\* and a maximizing one of the metric the logs report, and one of a metric
\* the logs never hold
SideBySide ==
    {NewEarlyStopping("loss", FALSE, 0, 1),
     NewEarlyStopping("loss", TRUE, 0, 1),
     NewEarlyStopping("acc", FALSE, 0, 1)}

\* the observers the model appends to a container
Observers ==
    {NewCallback, NewHistory, NewEarlyStopping("loss", FALSE, 0, 1)}

\* logs of an epoch end: none, empty, or the metric
EpochLogs == {NoLogs, Logs(EmptyDict)} \cup {Logs([k \in {"loss"} |-> v]) : v \in Values}

\* logs of the calls whose hooks read nothing from them: none, or empty
PlainLogs == {NoLogs, Logs(EmptyDict)}

\* metric values that are not finite: a loss that has diverged to inf, and
\* its negative. As the best value of a minimizing monitor is inf itself,
\* the change inf - inf is no improvement (nan in floats, which compares
\* False with every tolerance).
NonFinite == {Inf, 0 - Inf}

\* logs of an epoch end whose metric is not finite
NonFiniteLogs == {Logs([k \in {"loss"} |-> v]) : v \in NonFinite}

\* logs of a train begin
TrainLogs == {NoLogs, Logs([k \in {"start_time"} |-> 0])}

\* logs of a batch end: none, or the keys the trainer writes
BatchLogs ==
    {NoLogs} \cup
    {Logs([k \in BatchKeys |-> IF k = "batch_size" THEN 1 ELSE IF k = "loss" THEN v ELSE 0]) :
        v \in 0..MaxLoss}

\* no History has seen more than MaxSeen samples in this epoch
RoomForBatch ==
    \A i \in 1..Len(callbacks) :
        callbacks[i].kind = "History" => callbacks[i]._samples_seen < MaxSeen

----------------------------------------------------------------------------
(* Actions: the operations of the container, reached in the order of the   *)
(* trainer's training call: observers are attached and the trainer is set  *)
(* first, on_train_begin opens the loop, each epoch runs from               *)
(* on_epoch_begin over its batches to on_epoch_end, on_train_end closes.   *)
(* The trainer is not made to look at its stop flag: the hooks stay        *)
(* callable after a monitor has asked for the stop.                        *)

AppendObserver ==
    /\ pc = "new"
    /\ Len(callbacks) < MaxCallbacks
    /\ \E cb \in Observers : ContainerAppend(cb)
    /\ UNCHANGED <<pc, epoch_idx>>

SetTrainer ==
    /\ pc = "new"
    /\ ContainerSetTrainer(TheTrainer)
    /\ UNCHANGED <<pc, epoch_idx>>

OnTrainBegin ==
    /\ pc = "new"
    /\ c_trainer = TheTrainer
    /\ \E l \in TrainLogs : Dispatch("on_train_begin", 0, l, TRUE)
    /\ Goes("loop")
    /\ UNCHANGED epoch_idx

OnEpochBegin ==
    /\ pc = "loop"
    /\ epoch_idx <= MaxEpoch
    /\ \E l \in PlainLogs : Dispatch("on_epoch_begin", epoch_idx, l, TRUE)
    /\ Goes("epoch")
    /\ UNCHANGED epoch_idx

OnBatchBegin ==
    /\ pc = "epoch"
    /\ RoomForBatch
    /\ \E l \in PlainLogs : Dispatch("on_batch_begin", 0, l, TRUE)
    /\ Goes("batch")
    /\ UNCHANGED epoch_idx

OnBatchEnd ==
    /\ pc = "batch"
    /\ \E l \in BatchLogs : Dispatch("on_batch_end", 0, l, TRUE)
    /\ Goes("epoch")
    /\ UNCHANGED epoch_idx

OnEpochEnd ==
    /\ pc = "epoch"
    /\ \E l \in EpochLogs, copies \in BOOLEAN : Dispatch("on_epoch_end", epoch_idx, l, copies)
    /\ Goes("loop")
    /\ epoch_idx' = epoch_idx + 1

OnTrainEnd ==
    /\ pc = "loop"
    /\ \E l \in PlainLogs : Dispatch("on_train_end", 0, l, TRUE)
    /\ Goes("done")
    /\ UNCHANGED epoch_idx

\* an epoch end whose logs report a metric that is not finite
OnEpochEndNonFinite ==
    /\ pc = "epoch"
    /\ \E l \in NonFiniteLogs, copies \in BOOLEAN : Dispatch("on_epoch_end", epoch_idx, l, copies)
    /\ Goes("loop")
    /\ epoch_idx' = epoch_idx + 1

Start ==
    /\ NewTrainer
    /\ trace = <<>>
    /\ raised = 0
    /\ lastHook = "init"

\* one monitor, handed to the container's constructor
Init == Start /\ \E es \in EarlyStoppings : NewContainer(<<es>>)

Next ==
    \/ SetTrainer
    \/ OnTrainBegin
    \/ OnEpochBegin
    \/ OnBatchBegin
    \/ TrainStep
    \/ OnBatchEnd
    \/ OnEpochEnd
    \/ OnTrainEnd

Spec == Init /\ [][Next]_vars

\* one monitor, with metric values that may be not finite
NextNonFinite == Next \/ OnEpochEndNonFinite

SpecNonFinite == Init /\ [][NextNonFinite]_vars

\* two monitors, handed to the container's constructor in this order
InitMonitors == Start /\ \E a \in SideBySide, b \in SideBySide : NewContainer(<<a, b>>)

SpecMonitors == InitMonitors /\ [][Next]_vars

\* an empty container, to which observers are appended
InitDispatch == Start /\ NewContainer(<<>>)

\* the operations of the container without the optimizer steps of the
\* trainer; at most MaxRounds epochs are completed
NextDispatch ==
    \/ AppendObserver
    \/ SetTrainer
    \/ OnTrainBegin
    \/ OnEpochBegin
    \/ OnBatchBegin
    \/ OnBatchEnd
    \/ (OnEpochEnd /\ epoch_idx' <= MaxRounds)
    \/ OnTrainEnd

SpecDispatch == InitDispatch /\ [][NextDispatch]_vars

----------------------------------------------------------------------------
(* Properties *)

\* the position in vals of the last value the documented rule accepts
\* (0: none yet)
RECURSIVE LastAccepted(_, _, _)
LastAccepted(vals, is_maximize, tol) ==
    IF vals = <<>>
    THEN 0
    ELSE LET front == SubSeq(vals, 1, Len(vals) - 1)
             v == vals[Len(vals)]
         IN IF v # Missing /\ Beats(v, FilteredBest(front, is_maximize, tol), is_maximize, tol)
            THEN Len(vals)
            ELSE LastAccepted(front, is_maximize, tol)

\* the calls after the last accepted one
CallsSince(i) ==
    LET m == callbacks[i]
    IN (LastAccepted(hist[i].vals, m._is_maximize, m._tol) + 1)..Len(hist[i].vals)

\* C1: after every on_epoch_end call, best_value is the best of the values
\* reported so far under the tolerance-gated rule: a value becomes the best
\* only if it beats the last accepted best by strictly more than the
\* tolerance.
C1_BestIsFilteredExtremum ==
    \A i \in Monitors :
        callbacks[i]._best_loss =
            FilteredBest(hist[i].vals, callbacks[i]._is_maximize, callbacks[i]._tol)

\* a maximizing monitor with tolerance 1 was given 0, 1, 2: 1 is within the
\* tolerance of 0 and is rejected, 2 is judged against 0 and accepted
C1_Witness ==
    \E i \in Monitors :
        /\ callbacks[i]._is_maximize
        /\ callbacks[i]._tol = 1
        /\ hist[i].vals = <<0, 1, 2>>
        /\ callbacks[i]._best_loss = 2
        /\ callbacks[i]._best_epoch = 2

\* C2 as stated: wait_count is the number of on_epoch_end calls since the
\* last accepted improvement, whether or not they reported the metric
C2_WaitCountsAllCalls ==
    \A i \in Monitors : callbacks[i]._wait = Cardinality(CallsSince(i))

\* C2, amended: wait_count is the number of on_epoch_end calls since the
\* last accepted improvement that reported the metric; calls whose logs lack
\* the metric are not counted.
C2_WaitCountsReportedCalls ==
    \A i \in Monitors :
        callbacks[i]._wait = Cardinality({k \in CallsSince(i) : hist[i].vals[k] # Missing})

\* after an accepted value, one call without the metric and one with a value
\* that does not improve: wait_count is 1 after two calls
C2_Witness ==
    \E i \in Monitors :
        /\ Len(hist[i].vals) = 3
        /\ hist[i].vals[1] # Missing
        /\ hist[i].vals[2] = Missing
        /\ hist[i].vals[3] = hist[i].vals[1]
        /\ callbacks[i]._wait = 1

\* C3: once a monitor's wait_count has reached its patience the trainer's
\* stop flag is true, and no operation of the container or hook of an
\* observer makes a true stop flag false again.
C3_StopFlagStays ==
    [][/\ trainer._stop_training => trainer'._stop_training
       /\ \A i \in 1..Len(callbacks') :
            (/\ callbacks'[i].kind = "EarlyStopping"
             /\ callbacks'[i]._wait >= callbacks'[i]._patience)
            => trainer'._stop_training]_vars

\* the flag is set, and a History in the container has since taken a
\* batch end
C3_Witness ==
    /\ trainer._stop_training
    /\ lastHook = "on_batch_end"
    /\ raised = 0
    /\ \E i \in 1..Len(callbacks) : callbacks[i].kind = "History"

C5_MissingMetricIsSkipped ==
    [][\A i \in Monitors :
          hist'[i].vals = Append(hist[i].vals, Missing)
          => /\ callbacks'[i] = callbacks[i]
             /\ trainer' = trainer
             /\ heap' = heap
             /\ raised' = 0]_vars

\* a monitor that holds a snapshot and has waited once has just received
\* logs without the metric
C5_Witness ==
    \E i \in Monitors :
        /\ lastHook = "on_epoch_end"
        /\ Len(hist[i].vals) = 3
        /\ hist[i].vals[3] = Missing
        /\ callbacks[i]._wait = 1
        /\ callbacks[i]._best_weights # NoRef
        /\ pc = "loop"

\* C6: on_train_end writes the monitor's best epoch and best value into the
\* trainer and, when the monitor holds a snapshot, makes the live weights
\* those that were live at the call that set the best value, whether or not
\* the monitor has set the stop flag; without a snapshot the live weights
\* stay.
C6_TrainEndRestoresBest ==
    [][(pc = "loop" /\ pc' = "done")
       => \A i \in Monitors :
            LET m == callbacks[i]
            IN /\ trainer'._best_epoch = m._best_epoch
               /\ trainer'._best_cost = m._best_loss
               /\ heap'[LiveAddr] = IF m._best_weights # NoRef
                                    THEN hist[i].liveAtBest
                                    ELSE heap[LiveAddr]]_vars

\* training has ended without a stop: the weights on_train_end found were
\* not the ones it left, which are those of the best epoch
C6_Witness ==
    /\ pc = "done"
    /\ ~trainer._stop_training
    /\ \E i \in Monitors :
        /\ callbacks[i]._best_weights # NoRef
        /\ trace[i].live # heap[LiveAddr]
        /\ heap[LiveAddr] = hist[i].liveAtBest
        /\ trainer._best_cost = callbacks[i]._best_loss
        /\ trainer._best_epoch = callbacks[i]._best_epoch

\* C7: the snapshot a monitor holds has the contents the live weights had at
\* the call that was last accepted, whatever has happened to the live
\* weights since.
C7_SnapshotIndependent ==
    \A i \in Monitors :
        callbacks[i]._best_weights # NoRef
        => heap[callbacks[i]._best_weights] = hist[i].liveAtBest

\* an optimizer step has just changed the live weights under a snapshot
C7_Witness ==
    /\ lastHook = "step"
    /\ \E i \in Monitors :
        /\ callbacks[i]._best_weights # NoRef
        /\ heap[callbacks[i]._best_weights] # heap[LiveAddr]

HookNames ==
    {"on_epoch_begin", "on_epoch_end", "on_batch_begin", "on_batch_end",
     "on_train_begin", "on_train_end"}

\* C8: a dispatch call that returns has invoked the hook it names on every
\* observer once, in the order of the sequence, and each hook found the
\* trainer as the hook before it left it; the trainer is left as the last
\* hook left it.
C8_DispatchInOrder ==
    (lastHook \in HookNames /\ raised = 0)
    => /\ Len(trace) = Len(callbacks)
       /\ \A k \in 1..Len(trace) :
            /\ trace[k].pos = k
            /\ trace[k].hook = lastHook
            /\ k < Len(trace) => trace[k + 1].saw = trace[k].left
            /\ k = Len(trace) => trainer = trace[k].left

\* the second observer found a trainer that the first had written to in the
\* same event
C8_Witness ==
    /\ lastHook \in HookNames
    /\ raised = 0
    /\ Len(trace) >= 2
    /\ trace[2].saw # trace[1].saw

\* C10: when the hook of observer i raises, the dispatch call ends there:
\* the training call is aborted, no later observer is invoked or changed,
\* and the observers up to i and the trainer stay as the hooks left them.
C10_ExceptionPropagates ==
    [][raised' # 0
       => /\ Len(trace') = raised'
          /\ pc' = "aborted"
          /\ \A k \in 1..Len(callbacks') :
               IF k <= raised'
               THEN trace'[k].pos = k /\ callbacks'[k] = trace'[k].self
               ELSE callbacks'[k] = callbacks[k]
          /\ trainer' = trace'[raised'].left]_vars

\* the second observer raised at an epoch end at which the first, a
\* monitor, had taken the value as its best: the first keeps it
C10_Witness ==
    /\ raised = 2
    /\ lastHook = "on_epoch_end"
    /\ callbacks[1].kind = "EarlyStopping"
    /\ hist[1].vals = <<1>>
    /\ callbacks[1]._best_loss = 1
    /\ callbacks[1]._best_weights # NoRef

\* C11 as stated: the logs a hook receives are never None; every observer of
\* a dispatch call receives the dict the caller gave, an empty one included,
\* and one dict made by the call when the caller gave none
C11_LogsByReference ==
    \A k \in 1..Len(trace) :
        trace[k].logs = IF trace[k].given THEN "arg" ELSE "new"

\* C12 as stated: a monitor whose wait_count has reached its patience is
\* TRIGGERED for good: no later on_epoch_end call changes its best value,
\* best epoch, wait count, snapshot or stopped epoch
C12_TriggeredIsTerminal ==
    [][\A i \in Monitors :
          (/\ callbacks[i]._wait >= callbacks[i]._patience
           /\ hist'[i].vals # hist[i].vals)
          => callbacks'[i] = callbacks[i]]_vars

\* the value reported in the on_epoch_end call of epoch e (Missing when
\* there was no such call or its logs lacked the metric); the trainer's
\* calls come with the epochs 0, 1, 2, ...
ReportedAt(i, e) ==
    IF e + 1 \in 1..Len(hist[i].vals) THEN hist[i].vals[e + 1] ELSE Missing

\* the best value of a monitor that has accepted nothing
InitialBest(m) == IF m._is_maximize THEN 0 - Inf ELSE Inf

\* C13 as stated: in every state, the initial one included, best_value is
\* the value that was reported at epoch best_epoch
C13_BestIsValueAtBestEpoch ==
    \A i \in Monitors :
        callbacks[i]._best_loss = ReportedAt(i, callbacks[i]._best_epoch)

\* C13, amended: once a reported value has been accepted, best_value is the
\* value that was reported at epoch best_epoch; until then best_value is the
\* initial infinite value and best_epoch is 0, whether or not anything was
\* reported at epoch 0.
C13_BestIsValueAtBestEpochOnceAccepted ==
    \A i \in Monitors :
        LET m == callbacks[i]
        IN IF LastAccepted(hist[i].vals, m._is_maximize, m._tol) > 0
           THEN m._best_loss = ReportedAt(i, m._best_epoch)
           ELSE m._best_loss = InitialBest(m) /\ m._best_epoch = 0

\* the best value is the one of epoch 1, after epoch 0 went by without the
\* metric and epoch 2 did not improve
C13_Witness ==
    \E i \in Monitors :
        /\ Len(hist[i].vals) = 3
        /\ hist[i].vals[1] = Missing
        /\ hist[i].vals[2] = 1
        /\ callbacks[i]._best_epoch = 1
        /\ callbacks[i]._best_loss = 1
        /\ callbacks[i]._wait = 1

\* C14: on a container without observers, each of the six dispatch methods,
\* with or without logs, and set_trainer return normally and leave the
\* trainer's fields and the live weights as they were.
C14_EmptyContainerIsInert ==
    [][(callbacks = <<>> /\ lastHook' \in HookNames \cup {"set_trainer"})
       => /\ raised' = 0
          /\ trace' = <<>>
          /\ trainer' = trainer
          /\ heap' = heap
          /\ callbacks' = <<>>]_vars

\* a training call has gone through a container without observers, from
\* set_trainer and on_train_begin over a whole epoch to the end of a batch
\* of the next
C14_Witness ==
    /\ callbacks = <<>>
    /\ c_trainer = TheTrainer
    /\ lastHook = "on_batch_end"
    /\ epoch_idx >= 1
    /\ raised = 0
    /\ trainer = [_stop_training |-> FALSE, _best_epoch |-> Unset, _best_cost |-> Unset]

\* C15: when the copy of the live weights fails in an on_epoch_end call
\* that would accept its value, the call raises, and snapshot, best value,
\* best epoch and wait count of the monitor are those from before the call;
\* the objects on the heap, the stored snapshot among them, are untouched.
\* (The on_epoch_end of a monitor that holds its trainer raises nowhere but
\* at the copy.)
C15_CopyThenAssign ==
    [][\A i \in Monitors :
          (/\ lastHook' = "on_epoch_end"
           /\ raised' = i
           /\ callbacks[i]._trainer = TheTrainer)
          => /\ callbacks'[i] = callbacks[i]
             /\ heap' = heap
             /\ trainer' = trainer
             /\ pc' = "aborted"]_vars

\* the copy failed at a call after the monitor had accepted a value and
\* waited once: snapshot and counters are still those
C15_Witness ==
    \E i \in Monitors :
        /\ lastHook = "on_epoch_end"
        /\ raised = i
        /\ callbacks[i]._trainer = TheTrainer
        /\ callbacks[i]._best_weights # NoRef
        /\ callbacks[i]._wait = 1
        /\ hist[i].vals = <<1, 1>>
        /\ heap[callbacks[i]._best_weights] = hist[i].liveAtBest

\* C16 as stated: at the end of training, the summary of on_train_end takes
\* the run for stopped early (stopped_epoch > 0) exactly when the monitor
\* has set the stop flag
C16_SummaryTellsEarlyStop ==
    pc = "done"
    => \A i \in Monitors :
          (callbacks[i]._stopped_epoch > 0) <=> trainer._stop_training

Recorders == {i \in 1..Len(callbacks) : callbacks[i].kind = "History"}

\* the batch_size-weighted mean of the losses of the batches of an epoch;
\* the value of the reset, 0, when it had none
MeanLoss(h) == IF h.seen = 0 THEN Zero ELSE Frac(h.sum, h.seen)

\* C17 as stated: the loss a History reports at on_epoch_end is the
\* batch_size-weighted mean of the batch losses since the on_epoch_begin of
\* that epoch, whatever earlier epochs held; an epoch without batches
\* reports the value of the reset
C17_EpochLossIsOfThisEpoch ==
    (lastHook = "on_epoch_end" /\ raised = 0)
    => \A i \in Recorders : callbacks[i]._epoch_metrics = MeanLoss(hist[i])

\* best value, best epoch, wait count, snapshot and stopped epoch
MonitorState(m) ==
    <<m._best_loss, m._best_epoch, m._wait, m._best_weights, m._stopped_epoch>>

InheritedHooks == {"on_train_begin", "on_epoch_begin", "on_batch_begin", "on_batch_end"}

\* C18: the hooks a monitor inherits (on_train_begin, on_epoch_begin,
\* on_batch_begin, on_batch_end) raise nothing and leave the monitor, the
\* trainer's fields and the weights as they were; the monitor's state
\* changes in on_epoch_end only; the trainer's best epoch and best value
\* are written in on_train_end only, and nothing but on_train_end and the
\* trainer's own optimizer step changes the live weights.
C18_MonitorFrame ==
    [][/\ lastHook' \in InheritedHooks
          => /\ raised' = 0
             /\ callbacks' = callbacks
             /\ trainer' = trainer
             /\ heap' = heap
       /\ \A i \in Monitors :
             MonitorState(callbacks'[i]) # MonitorState(callbacks[i])
             => lastHook' = "on_epoch_end"
       /\ (\/ trainer'._best_epoch # trainer._best_epoch
           \/ trainer'._best_cost # trainer._best_cost)
          => lastHook' = "on_train_end"
       /\ heap'[LiveAddr] # heap[LiveAddr]
          => lastHook' \in {"on_train_end", "step"}]_vars

\* a monitor that holds a snapshot and has waited once has just been handed
\* the end of a batch, with the loss of the batch in the logs
C18_Witness ==
    \E i \in Monitors :
        /\ lastHook = "on_batch_end"
        /\ raised = 0
        /\ trace[i].given
        /\ callbacks[i]._best_weights # NoRef
        /\ callbacks[i]._wait = 1
        /\ callbacks[i]._best_loss = 0

\* the metric was in the logs of none of the monitor's on_epoch_end calls
NeverReported(i) == \A k \in 1..Len(hist[i].vals) : hist[i].vals[k] = Missing

\* C19: a monitor holds a snapshot exactly when a reported value has been
\* accepted, which is exactly when its best value is no longer the initial
\* infinite one. A monitor to which the metric was never reported has not
\* set the stop flag, and its on_train_end writes best epoch 0 and the
\* initial infinite best value to the trainer and leaves the live weights
\* as it found them.
C19_SnapshotIffAccepted ==
    \A i \in Monitors :
        LET m == callbacks[i]
            accepted == LastAccepted(hist[i].vals, m._is_maximize, m._tol) > 0
        IN /\ m._best_weights # NoRef <=> accepted
           /\ accepted <=> m._best_loss # InitialBest(m)
           /\ NeverReported(i)
              => /\ ~trainer._stop_training
                 /\ (pc = "done")
                    => /\ trainer._best_epoch = 0
                       /\ trainer._best_cost = InitialBest(m)
                       /\ heap[LiveAddr] = trace[i].live

\* training has ended after two epochs that did not report the metric and
\* an optimizer step: the trainer is given epoch 0 and the infinite value,
\* the weights are those of the step
C19_Witness ==
    \E i \in Monitors :
        /\ pc = "done"
        /\ hist[i].vals = <<Missing, Missing>>
        /\ callbacks[i]._best_weights = NoRef
        /\ trainer._best_epoch = 0
        /\ trainer._best_cost = InitialBest(callbacks[i])
        /\ ~trainer._stop_training
        /\ heap[LiveAddr] = 1

\* the monitors that hold a snapshot
Holders == {i \in Monitors : callbacks[i]._best_weights # NoRef}

\* the last position of a non-empty set of positions
Last(S) == CHOOSE i \in S : \A j \in S : j <= i

\* C20: with several monitors in one container, the stop flag is true as
\* soon as the wait count of any of them has reached its patience; the
\* on_train_end dispatch leaves the trainer with the best epoch and best
\* value of the last monitor of the sequence, and with the live weights of
\* the snapshot of the last monitor that holds one (as it found them if
\* none does).
C20_MonitorsCombineInOrder ==
    [][/\ (\E i \in Monitors : callbacks'[i]._wait >= callbacks'[i]._patience)
          => trainer'._stop_training
       /\ (pc = "loop" /\ pc' = "done" /\ Monitors # {})
          => /\ trainer'._best_epoch = callbacks[Last(Monitors)]._best_epoch
             /\ trainer'._best_cost = callbacks[Last(Monitors)]._best_loss
             /\ heap'[LiveAddr] = IF Holders = {}
                                  THEN heap[LiveAddr]
                                  ELSE heap[callbacks[Last(Holders)]._best_weights]]_vars

\* training has ended with the first monitor triggered and holding a
\* snapshot and the second, whose metric was never reported, holding none:
\* the trainer has the second's best epoch and infinite best value, and
\* the weights of the first's snapshot, which were not the live ones
C20_Witness ==
    /\ pc = "done"
    /\ Len(callbacks) = 2
    /\ callbacks[1]._best_weights # NoRef
    /\ callbacks[2]._best_weights = NoRef
    /\ callbacks[1]._wait >= callbacks[1]._patience
    /\ callbacks[2]._wait = 0
    /\ trainer._stop_training
    /\ trainer._best_cost = InitialBest(callbacks[2])
    /\ trainer._best_cost # callbacks[1]._best_loss
    /\ heap[LiveAddr] = heap[callbacks[1]._best_weights]
    /\ heap[LiveAddr] # trace[1].live

\* C9 as stated: once set_trainer has been called on the container, every
\* observer of its sequence holds the trainer
C9_EveryObserverBound ==
    c_trainer = TheTrainer
    => \A i \in 1..Len(callbacks) : callbacks[i]._trainer = TheTrainer

====
